---- MODULE Spec2Model ----
(***************************************************************************)
(* Beacon start / response / end events of ruma-events (MSC3489 beacons):  *)
(* answer-list construction, selection validation, result compilation,    *)
(* result presentation, the beacon info state events, beacon definitions, *)
(* the legacy kind serde, and xtask's Package::can_enable_feature.         *)
(*                                                                         *)
(* The specifications share the module's variables:                        *)
(*   SpecAnswers   the constructors of BeaconAnswers / UnstableBeacon-     *)
(*                 Answers (TryFrom<Vec>, TryFrom<&[_]>, the serde helper) *)
(*   SpecValidate  SelectionsContentBlock::validate and its legacy twin    *)
(*   Spec          compile of a beacon's results, one response per step    *)
(*   SpecPresent   the results block, sorted() and the fallback text       *)
(*   SpecEnd       compile_results of a stable or legacy start event       *)
(*   SpecInfo      BeaconInfoEventContent / BeaconStateEventContent        *)
(*   SpecDefinition  new, field assignment and deserialization of the      *)
(*                 beacon content blocks                                   *)
(*   SpecKind      unstable_beacon_kind_serde: serialize / deserialize     *)
(*   SpecCargo     Package::can_enable_feature                             *)
(***************************************************************************)
EXTENDS Integers, Sequences, FiniteSets, TLC

VARIABLES
    \* ---- answer-list construction
    supplied,     \* the Vec / slice / wire payload handed to the constructor
    op,           \* the constructor that ran last ("none" before any)
    result,       \* its Result<answers, BeaconAnswersError>
    \* ---- selection validation
    vBeacon,      \* the beacon content block validate is called with
    vRaw,         \* the raw selections of the response
    vSchema,      \* "stable" | "unstable" | "none": which validate ran
    vOut,         \* its Option<sequence of answer IDs>
    \* ---- result compilation
    beacon,       \* the beacon content block being compiled
    cutoff,       \* Option<timestamp>
    consumed,     \* the responses the iterator has yielded so far, in order
    current,      \* sender -> Option<(selections, submitted_at)>
    tally,        \* Option<answer id -> set of senders>, set when compile returns
    pc,           \* "fold" while responses are consumed, "done" after
    \* ---- result presentation
    pSchema,      \* "stable" | "unstable": whose answers pAnswers are
    pAnswers,     \* the answers of the beacon (id and text)
    pResults,     \* the (answer id, count) pairs, in the order they are produced
    beacon_results, \* Option<BeaconResultsContentBlock> built from pResults
    leaderboard,  \* Option<Vec<(id, count)>>: what sorted() returned
    plain_text,   \* Option<String>: the fallback text
    \* ---- beacon info state events
    content,      \* the BeaconInfoEventContent / BeaconStateEventContent value
    live_call,    \* the last is_live() call: the clock it read and its outcome
    wire,         \* the JSON object the content serialized to
    \* ---- beacon end events
    pipeline,     \* "stable" | "unstable": whose compile_results is running
    called_at,    \* the clock compile_results read (MilliSecondsSinceUnixEpoch::now)
    \* ---- beacon definitions
    definition,   \* Result<beacon content block, serde error> last produced
    payload,      \* the wire form the block was deserialized from (or NoPayload)
    built_by,     \* "new" | "assign" | "deserialize": how it was produced
    \* ---- beacon kinds on the legacy wire
    kind,         \* the BeaconKind value held
    kind_wire,    \* Option<String>: the string on the wire
    kind_back,    \* Option<BeaconKind>: what deserialize returned for kind_wire
    \* ---- cargo metadata
    package,      \* the Package whose features are inspected
    query,        \* Option<(package_name, feature_name)> of the last call
    can_enable    \* Option<bool>: what can_enable_feature returned

vars == <<supplied, op, result, vBeacon, vRaw, vSchema, vOut,
          beacon, cutoff, consumed, current, tally, pc,
          pSchema, pAnswers, pResults, beacon_results, leaderboard, plain_text,
          content, live_call, wire,
          pipeline, called_at, definition, payload, built_by,
          kind, kind_wire, kind_back, package, query, can_enable>>

answerVars   == <<supplied, op, result>>
validateVars == <<vBeacon, vRaw, vSchema, vOut>>
compileVars  == <<beacon, cutoff, consumed, current, tally, pc>>
presentVars  == <<pSchema, pAnswers, pResults, beacon_results, leaderboard,
                  plain_text>>
infoVars     == <<content, live_call, wire>>
endVars      == <<pipeline, called_at>>
definitionVars == <<definition, payload, built_by>>
kindVars     == <<kind, kind_wire, kind_back>>
cargoVars    == <<package, query, can_enable>>
otherVars    == <<endVars, definitionVars, kindVars, cargoVars>>

(***************************************************************************)
(* Bounds of the model.                                                    *)
(***************************************************************************)
\* Longest vector handed to an answer-list constructor (past MAX_LENGTH).
MaxSupplied == 22
\* Largest max_selections a beacon of the model carries.
MaxSel == 2
\* Longest raw selection list handed to validate.
MaxRaw == 4
\* Most responses the iterator yields to one compile call.
MaxResponses == 3

(***************************************************************************)
(* Result and Option values.                                               *)
(***************************************************************************)
Ok(v)  == [tag |-> "Ok", value |-> v, error |-> "none"]
Err(e) == [tag |-> "Err", value |-> <<>>, error |-> e]
NoResult == [tag |-> "NotRun", value |-> <<>>, error |-> "none"]

Some(v) == [some |-> TRUE, value |-> v]
None    == [some |-> FALSE, value |-> <<>>]

(***************************************************************************)
(* BeaconAnswer / UnstableBeaconAnswer: an id and a text.                  *)
(***************************************************************************)
BeaconAnswer(id, text) == [id |-> id, text |-> text]

\* The answers callers build vectors from.
AnswerPool ==
    << BeaconAnswer("red", "Red"), BeaconAnswer("blue", "Blue"),
       BeaconAnswer("red", "Rouge") >>

\* A vector of n answers: start, start+step, start+2*step, ... in AnswerPool.
AnswerVec(n, start, step) ==
    [i \in 1..n |-> AnswerPool[((start + (i - 1) * step) % Len(AnswerPool)) + 1]]

SuppliedVecs ==
    { AnswerVec(n, start, step) :
        n \in 0..MaxSupplied, start \in 0..(Len(AnswerPool) - 1),
        step \in 0..(Len(AnswerPool) - 1) }

(***************************************************************************)
(* BeaconAnswers::MIN_LENGTH / MAX_LENGTH and the constructors.            *)
(***************************************************************************)
MIN_LENGTH == 1
MAX_LENGTH == 20

\* Vec::truncate(len): keeps the first len elements, no effect when shorter.
Truncate(v, len) == IF Len(v) > len THEN SubSeq(v, 1, len) ELSE v

BeaconAnswers_try_from_off_by_one(value) ==
    IF Len(value) < MIN_LENGTH THEN Err("NotEnoughValues")
    ELSE IF Len(value) >= MAX_LENGTH THEN Err("TooManyValues")
    ELSE Ok(value)

\* impl TryFrom<Vec<BeaconAnswer>> for BeaconAnswers
BeaconAnswers_try_from(value) ==
    IF Len(value) < MIN_LENGTH THEN Err("NotEnoughValues")
    ELSE IF Len(value) > MAX_LENGTH THEN Err("TooManyValues")
    ELSE Ok(value)

\* impl TryFrom<&[BeaconAnswer]> for BeaconAnswers: value.to_owned() is a copy
BeaconAnswers_try_from_slice(value) == BeaconAnswers_try_from(value)

BeaconAnswers_try_from_helper_untruncated(helper) ==
    BeaconAnswers_try_from(helper)

\* impl TryFrom<BeaconAnswersDeHelper> for BeaconAnswers
BeaconAnswers_try_from_helper(helper) ==
    LET answers == Truncate(helper, MAX_LENGTH)
    IN  BeaconAnswers_try_from(answers)

\* impl TryFrom<Vec<UnstableBeaconAnswer>> for UnstableBeaconAnswers
UnstableBeaconAnswers_try_from(value) ==
    IF Len(value) < MIN_LENGTH THEN Err("NotEnoughValues")
    ELSE IF Len(value) > MAX_LENGTH THEN Err("TooManyValues")
    ELSE Ok(value)

\* impl TryFrom<&[UnstableBeaconAnswer]> for UnstableBeaconAnswers
UnstableBeaconAnswers_try_from_slice(value) ==
    UnstableBeaconAnswers_try_from(value)

UnstableBeaconAnswers_try_from_helper_unchecked(helper) ==
    Ok(Truncate(helper, MAX_LENGTH))

\* impl TryFrom<UnstableBeaconAnswersDeHelper> for UnstableBeaconAnswers
UnstableBeaconAnswers_try_from_helper(helper) ==
    LET answers == Truncate(helper, MAX_LENGTH)
    IN  UnstableBeaconAnswers_try_from(answers)

(***************************************************************************)
(* Beacon content blocks.  max_selections is a UInt: any value from 0.     *)
(***************************************************************************)
BeaconContentBlock(answers, max_selections) ==
    [answers |-> answers, max_selections |-> max_selections]

\* BeaconContentBlock::default_max_selections
default_max_selections == 1

\* The answer lists of the model's beacons: built through TryFrom.
BeaconAnswerLists ==
    { BeaconAnswers_try_from(v).value :
        v \in { w \in SuppliedVecs :
                  Len(w) <= 2 /\ BeaconAnswers_try_from(w).tag = "Ok" } }

Beacons ==
    { BeaconContentBlock(a, m) : a \in BeaconAnswerLists, m \in 0..MaxSel }

\* The IDs a response may submit; "green" is the id of no answer.
SelectionIds == {"red", "blue", "green"}

RECURSIVE SeqsUpTo(_, _)
SeqsUpTo(S, n) ==
    IF n = 0 THEN {<<>>}
    ELSE LET shorter == SeqsUpTo(S, n - 1)
         IN  shorter \cup
               { Append(q, x) : q \in { r \in shorter : Len(r) = n - 1 }, x \in S }

RawLists == SeqsUpTo(SelectionIds, MaxRaw)

Range(q) == { q[i] : i \in 1..Len(q) }

(***************************************************************************)
(* Selection validation.                                                   *)
(***************************************************************************)
Take(q, n) == IF Len(q) > n THEN SubSeq(q, 1, n) ELSE q

\* validate_selections(answer_ids, max_selections, selections)
validate_selections(answer_ids, max_selections, selections) ==
    LET filtered  == SelectSeq(selections, LAMBDA s : s \in answer_ids)
        truncated == Take(filtered, max_selections)
    IN  IF truncated = <<>> THEN None ELSE Some(truncated)

SelectionsContentBlock_validate_off_by_one(self, b) ==
    LET answer_ids == { b.answers[i].id : i \in 1..Len(b.answers) }
    IN  validate_selections(answer_ids, b.max_selections + 1, self)

SelectionsContentBlock_validate_all_ids(self, b) ==
    validate_selections(SelectionIds, b.max_selections, self)

\* SelectionsContentBlock::validate(&self, beacon)
SelectionsContentBlock_validate(self, b) ==
    LET answer_ids == { b.answers[i].id : i \in 1..Len(b.answers) }
    IN  validate_selections(answer_ids, b.max_selections, self)

UnstableBeaconResponseContentBlock_validate_untruncated(self, b) ==
    LET answer_ids == { b.answers[i].id : i \in 1..Len(b.answers) }
    IN  validate_selections(answer_ids, Len(self.answers), self.answers)

\* UnstableBeaconResponseContentBlock::validate(&self, beacon)
UnstableBeaconResponseContentBlock_validate(self, b) ==
    LET answer_ids == { b.answers[i].id : i \in 1..Len(b.answers) }
    IN  validate_selections(answer_ids, b.max_selections, self.answers)

\* UnstableBeaconResponseContentBlock::new(answers)
UnstableBeaconResponseContentBlock_new(answers) == [answers |-> answers]

(***************************************************************************)
(* Response records and the result compiler.                               *)
(***************************************************************************)
Senders    == {"alice", "bob"}
Timestamps == {1, 2}

\* The selections the responses of the model carry.
SelectionPool ==
    { <<"red">>, <<"blue", "red">>, <<"green">>, <<"red", "red">> }

\* BeaconResponseData { sender, origin_server_ts, selections }
BeaconResponseData(sender, origin_server_ts, selections) ==
    [sender |-> sender, submitted_at |-> origin_server_ts,
     selections |-> selections]

ResponseRecords ==
    { BeaconResponseData(u, t, sel) :
        u \in Senders, t \in Timestamps, sel \in SelectionPool }

\* Option<MilliSecondsSinceUnixEpoch>
NoTimestamp      == [some |-> FALSE, value |-> 0]
SomeTimestamp(t) == [some |-> TRUE, value |-> t]

Cutoffs == {NoTimestamp} \cup { SomeTimestamp(t) : t \in Timestamps }

\* The beacon whose results are compiled: answers red and blue.
CompiledBeacons ==
    { b \in Beacons : b.answers = <<AnswerPool[1], AnswerPool[2]>> }

NoEntry == [some |-> FALSE, selections |-> <<>>, submitted_at |-> 0]
Entry(selections, submitted_at) ==
    [some |-> TRUE, selections |-> selections, submitted_at |-> submitted_at]

\* A response submitted strictly after the cutoff arrived after the close.
after_cutoff(record, end_timestamp) ==
    end_timestamp.some /\ record.submitted_at > end_timestamp.value

fold_response_newest_wins(acc, record, b, end_timestamp) ==
    LET valid == SelectionsContentBlock_validate(record.selections, b)
    IN  IF after_cutoff(record, end_timestamp) THEN acc
        ELSE IF ~valid.some THEN acc
        ELSE IF acc[record.sender].some
                /\ acc[record.sender].submitted_at >= record.submitted_at THEN acc
        ELSE [acc EXCEPT ![record.sender] = Entry(valid.value, record.submitted_at)]

fold_response_cutoff_inclusive(acc, record, b, end_timestamp) ==
    LET valid == SelectionsContentBlock_validate(record.selections, b)
    IN  IF end_timestamp.some /\ record.submitted_at >= end_timestamp.value THEN acc
        ELSE IF ~valid.some THEN acc
        ELSE [acc EXCEPT ![record.sender] = Entry(valid.value, record.submitted_at)]

fold_response_spoils(acc, record, b, end_timestamp) ==
    LET valid == SelectionsContentBlock_validate(record.selections, b)
    IN  IF after_cutoff(record, end_timestamp) THEN acc
        ELSE IF ~valid.some THEN [acc EXCEPT ![record.sender] = NoEntry]
        ELSE [acc EXCEPT ![record.sender] = Entry(valid.value, record.submitted_at)]

fold_response_forgets_others(acc, record, b, end_timestamp) ==
    LET valid == SelectionsContentBlock_validate(record.selections, b)
    IN  IF after_cutoff(record, end_timestamp) THEN acc
        ELSE IF ~valid.some THEN acc
        ELSE [u \in DOMAIN acc |->
                 IF u = record.sender
                 THEN Entry(valid.value, record.submitted_at) ELSE NoEntry]

\* One iteration of compile's loop over the responses (steps 2a-2c).
fold_response(acc, record, b, end_timestamp) ==
    LET valid == SelectionsContentBlock_validate(record.selections, b)
    IN  IF after_cutoff(record, end_timestamp) THEN acc
        ELSE IF ~valid.some THEN acc
        ELSE [acc EXCEPT ![record.sender] = Entry(valid.value, record.submitted_at)]

build_tally_first_only(acc) ==
    LET retained == { u \in DOMAIN acc : acc[u].some }
        voters(id) == { u \in retained : acc[u].selections[1] = id }
        keys == { acc[u].selections[1] : u \in retained }
    IN  [id \in keys |-> voters(id)]

\* Steps 3 and 4: answer id -> the senders whose retained selections hold it;
\* an id nobody selected is no key.
build_tally(acc) ==
    LET retained == { u \in DOMAIN acc : acc[u].some }
        voters(id) == { u \in retained : id \in Range(acc[u].selections) }
        keys == UNION { Range(acc[u].selections) : u \in retained }
    IN  [id \in keys |-> voters(id)]

RECURSIVE fold_responses(_, _, _, _)
fold_responses(acc, responses, b, end_timestamp) ==
    IF responses = <<>> THEN acc
    ELSE fold_responses(fold_response(acc, Head(responses), b, end_timestamp),
                        Tail(responses), b, end_timestamp)

\* compile_beacon_results(beacon, responses, end_timestamp)
compile_beacon_results(b, responses, end_timestamp) ==
    build_tally(fold_responses([u \in Senders |-> NoEntry], responses, b,
                               end_timestamp))

\* UnstableBeaconStartContentBlock { answers, max_selections, .. }
UnstableBeaconStartContentBlock(answers, max_selections) ==
    [answers |-> answers, max_selections |-> max_selections]

\* The loop body of the legacy compile: the same steps on a legacy beacon.
unstable_fold_response(acc, record, b, end_timestamp) ==
    LET valid == UnstableBeaconResponseContentBlock_validate(
                     UnstableBeaconResponseContentBlock_new(record.selections), b)
    IN  IF after_cutoff(record, end_timestamp) THEN acc
        ELSE IF ~valid.some THEN acc
        ELSE [acc EXCEPT ![record.sender] = Entry(valid.value, record.submitted_at)]

RECURSIVE unstable_fold_responses(_, _, _, _)
unstable_fold_responses(acc, responses, b, end_timestamp) ==
    IF responses = <<>> THEN acc
    ELSE unstable_fold_responses(
             unstable_fold_response(acc, Head(responses), b, end_timestamp),
             Tail(responses), b, end_timestamp)

\* compile_unstable_beacon_results(beacon, responses, end_timestamp)
compile_unstable_beacon_results(b, responses, end_timestamp) ==
    build_tally(unstable_fold_responses([u \in Senders |-> NoEntry], responses,
                                        b, end_timestamp))

NoTally == [some |-> FALSE, votes |-> <<>>]
Tally(votes) == [some |-> TRUE, votes |-> votes]

(***************************************************************************)
(* Result presentation: the results block, sorted() and the fallback text. *)
(***************************************************************************)
\* Most (id, count) pairs handed to the presenters at once.
MaxEntries == 3
\* Largest vote count of a pair.
MaxCount == 2

\* TextRepresentation { mimetype, body }; a TextContentBlock is a list of them.
TextRepresentation(mimetype, body) == [mimetype |-> mimetype, body |-> body]

TextContentBlock_plain(body) == << TextRepresentation("text/plain", body) >>

TextContentBlock_html(plain, html) ==
    << TextRepresentation("text/html", html),
       TextRepresentation("text/plain", plain) >>

\* A block that carries no text/plain representation.
TextContentBlock_html_only(html) == << TextRepresentation("text/html", html) >>

NoString      == [some |-> FALSE, value |-> ""]
SomeString(s) == [some |-> TRUE, value |-> s]

\* TextContentBlock::find_plain: the body of the first text/plain representation.
find_plain(block) ==
    LET plain == SelectSeq(block, LAMBDA r : r.mimetype = "text/plain")
    IN  IF plain = <<>> THEN NoString ELSE SomeString(plain[1].body)

\* The answers of the beacons whose results are presented.
PresentAnswers ==
    BeaconAnswers_try_from(
        << BeaconAnswer("red", TextContentBlock_plain("Red")),
           BeaconAnswer("blue", TextContentBlock_html_only("<b>Blue</b>")),
           BeaconAnswer("re", TextContentBlock_html("Re", "<i>Re</i>")) >>).value

UnstablePresentAnswers ==
    UnstableBeaconAnswers_try_from(
        << BeaconAnswer("red", "Rouge"), BeaconAnswer("blue", "Bleu"),
           BeaconAnswer("re", "Re") >>).value

PresentIds == { PresentAnswers[i].id : i \in 1..Len(PresentAnswers) }

\* The (id, count) pairs and the sequences of them the presenters are given.
ResultEntries == { <<id, n>> : id \in PresentIds, n \in 0..MaxCount }
ResultSeqs    == SeqsUpTo(ResultEntries, MaxEntries)

answer_labels_first_representation(answers) ==
    [i \in 1..Len(answers) |->
        << answers[i].id,
           IF answers[i].text # <<>> THEN answers[i].text[1].body
           ELSE answers[i].id >>]

\* compile_results (stable): (a.id, a.text.find_plain().unwrap_or(&a.id))
answer_labels(answers) ==
    [i \in 1..Len(answers) |->
        << answers[i].id,
           IF find_plain(answers[i].text).some
             THEN find_plain(answers[i].text).value
             ELSE answers[i].id >>]

\* compile_results (legacy): (a.id, a.text)
unstable_answer_labels(answers) ==
    [i \in 1..Len(answers) |-> << answers[i].id, answers[i].text >>]

\* Ord of u8 on the bytes the IDs of the model are written with.
ByteOrder == "abcdefghijklmnopqrstuvwxyz"
byte_rank(ch) == CHOOSE k \in 1..Len(ByteOrder) : SubSeq(ByteOrder, k, k) = ch

\* Ord of String: byte-wise lexicographic, a proper prefix sorts first.
RECURSIVE str_lt(_, _)
str_lt(a, b) ==
    IF Len(b) = 0 THEN FALSE
    ELSE IF Len(a) = 0 THEN TRUE
    ELSE LET x == byte_rank(SubSeq(a, 1, 1))
             y == byte_rank(SubSeq(b, 1, 1))
         IN  IF x # y THEN x < y
             ELSE str_lt(SubSeq(a, 2, Len(a)), SubSeq(b, 2, Len(b)))

\* BeaconResultsContentBlock::from_iter: the pairs are inserted in a BTreeMap
\* in order, a later pair replacing an earlier one of the same id.
BeaconResultsContentBlock_from_iter(pairs) ==
    LET keys == { pairs[i][1] : i \in 1..Len(pairs) }
        last(id) == CHOOSE i \in 1..Len(pairs) :
                        /\ pairs[i][1] = id
                        /\ \A j \in (i + 1)..Len(pairs) : pairs[j][1] # id
    IN  [id \in keys |-> pairs[last(id)][2]]

\* BTreeMap::iter: the entries in ascending key order.
RECURSIVE BTreeMap_iter(_)
BTreeMap_iter(map) ==
    IF DOMAIN map = {} THEN <<>>
    ELSE LET least == CHOOSE k \in DOMAIN map :
                          \A o \in DOMAIN map \ {k} : str_lt(k, o)
         IN  << <<least, map[least]>> >>
               \o BTreeMap_iter([k \in DOMAIN map \ {least} |-> map[k]])

\* slice::sort_by(|(_, a), (_, b)| b.cmp(a)) is a stable sort: e goes before
\* the first element with a smaller count, behind every one it ties with.
RECURSIVE insert_by_count_desc(_, _)
insert_by_count_desc(v, e) ==
    IF v = <<>> THEN <<e>>
    ELSE IF Head(v)[2] < e[2] THEN <<e>> \o v
    ELSE <<Head(v)>> \o insert_by_count_desc(Tail(v), e)

RECURSIVE sort_by_count_desc(_)
sort_by_count_desc(v) ==
    IF v = <<>> THEN <<>>
    ELSE insert_by_count_desc(sort_by_count_desc(SubSeq(v, 1, Len(v) - 1)),
                              v[Len(v)])

Reverse(v) == [i \in 1..Len(v) |-> v[Len(v) + 1 - i]]

BeaconResultsContentBlock_sorted_reversed(self) ==
    LET sorted == Reverse(BTreeMap_iter(self))
    IN  sort_by_count_desc(sorted)

\* BeaconResultsContentBlock::sorted(&self)
BeaconResultsContentBlock_sorted(self) ==
    LET sorted == BTreeMap_iter(self)
    IN  sort_by_count_desc(sorted)

\* The label the fallback text prints for an answer id: the text paired
\* with the first answer of that id.
label_of(answers, id) ==
    LET i == CHOOSE k \in 1..Len(answers) :
                 /\ answers[k][1] = id
                 /\ \A j \in 1..(k - 1) : answers[j][1] # id
    IN  answers[i][2]

\* One line of the fallback text: "<label>: <count> vote(s)".
fallback_line(answers, entry) ==
    label_of(answers, entry[1]) \o ": " \o ToString(entry[2]) \o " vote(s)"

\* The separator between the lines of the fallback text.
LineSeparator == "\n"

generate_beacon_end_fallback_text_voted_only(answers, results) ==
    LET voted == SelectSeq(results, LAMBDA e : e[2] > 0)
        join[i \in 0..Len(voted)] ==
            IF i = 0 THEN ""
            ELSE IF i = 1 THEN fallback_line(answers, voted[1])
            ELSE join[i - 1] \o LineSeparator \o fallback_line(answers, voted[i])
    IN  join[Len(voted)]

\* generate_beacon_end_fallback_text(answers, results)
generate_beacon_end_fallback_text(answers, results) ==
    LET join[i \in 0..Len(results)] ==
            IF i = 0 THEN ""
            ELSE IF i = 1 THEN fallback_line(answers, results[1])
            ELSE join[i - 1] \o LineSeparator \o fallback_line(answers, results[i])
    IN  join[Len(results)]

NoBlock       == [some |-> FALSE, map |-> <<>>]
SomeBlock(m)  == [some |-> TRUE, map |-> m]
NoLeaderboard == [some |-> FALSE, entries |-> <<>>]
Leaderboard(entries) == [some |-> TRUE, entries |-> entries]

(***************************************************************************)
(* Beacon info state events: BeaconInfoEventContent (room/beacon.rs) and   *)
(* BeaconStateEventContent (beacon/beacon.rs).  The field rust_type of a   *)
(* value names the struct it is a value of.                                *)
(***************************************************************************)
\* std::time::Duration: whole seconds and the nanoseconds past them.
Duration(secs, nanos)   == [secs |-> secs, nanos |-> nanos]
Duration_from_secs(secs) == Duration(secs, 0)

\* Duration::as_millis: whole milliseconds, the rest is dropped.
as_millis(d) == d.secs * 1000 + (d.nanos \div 1000000)

\* AssetContent { type_ }; AssetType::Self_ is "m.self", AssetType::Pin "m.pin".
AssetContent(type_) == [type_ |-> type_]
AssetContent_default == AssetContent("m.self")

\* ruma_common::serde::is_default
is_default(asset) == asset = AssetContent_default

Descriptions == { NoString, SomeString("Alice's location") }
Timeouts     == { Duration(0, 2500000), Duration_from_secs(60) }
StartTimes   == { 5, 1636829458 }
Assets       == { AssetContent("m.self"), AssetContent("m.pin") }

\* What MilliSecondsSinceUnixEpoch::now() may read: around every ts + timeout.
Clocks ==
    {0} \cup { t + as_millis(d) + k : t \in StartTimes, d \in Timeouts, k \in -1..1 }

\* BeaconInfoEventContent::new(description, timeout)
BeaconInfoEventContent_new(description, timeout) ==
    [rust_type |-> "BeaconInfoEventContent", description |-> description,
     live |-> FALSE, ts |-> NoTimestamp, timeout |-> timeout,
     asset |-> AssetContent_default]

BeaconInfoEventContent_start_stamps(self) ==
    [self EXCEPT !.live = TRUE, !.ts = SomeTimestamp(5)]

\* BeaconInfoEventContent::start(&mut self)
BeaconInfoEventContent_start(self) == [self EXCEPT !.live = TRUE]

\* BeaconInfoEventContent::stop(&mut self)
BeaconInfoEventContent_stop(self) == [self EXCEPT !.live = FALSE]

BeaconInfoEventContent_is_live_unwraps_first(self, now) ==
    IF ~self.ts.some THEN "panic"
    ELSE IF ~self.live THEN "false"
    ELSE IF self.ts.value + as_millis(self.timeout) < now THEN "true"
    ELSE "false"

\* BeaconInfoEventContent::is_live(&self), now being what the clock reads:
\* live && ts.unwrap() + timeout.as_millis() < now
BeaconInfoEventContent_is_live(self, now) ==
    IF ~self.live THEN "false"
    ELSE IF ~self.ts.some THEN "panic"
    ELSE IF self.ts.value + as_millis(self.timeout) < now THEN "true"
    ELSE "false"

\* BeaconStateEventContent::new(description, timeout)
BeaconStateEventContent_new(description, timeout) ==
    [rust_type |-> "BeaconStateEventContent", description |-> description,
     live |-> FALSE, ts |-> NoTimestamp, timeout |-> timeout,
     asset |-> AssetContent_default]

\* BeaconStateEventContent::start(&mut self)
BeaconStateEventContent_start(self) == [self EXCEPT !.live = TRUE]

\* BeaconStateEventContent::stop(&mut self)
BeaconStateEventContent_stop(self) == [self EXCEPT !.live = FALSE]

\* BeaconStateEventContent::is_live(&self)
BeaconStateEventContent_is_live(self, now) ==
    IF ~self.live THEN "false"
    ELSE IF ~self.ts.some THEN "panic"
    ELSE IF self.ts.value + as_millis(self.timeout) < now THEN "true"
    ELSE "false"

\* serde_json's object with one more member: SerializeStruct::serialize_field.
EmptyObject == <<>>
serialize_field(object, key, value) ==
    [k \in DOMAIN object \cup {key} |-> IF k = key THEN value ELSE object[k]]

\* Serialize of AssetContent: {"type": ...}
AssetContent_serialize(asset) ==
    serialize_field(EmptyObject, "type", asset.type_)

\* derive(Serialize) of BeaconInfoEventContent: the serde attributes of each
\* field decide its key, its value and whether it is emitted at all.
BeaconInfoEventContent_serialize(self) ==
    LET description == IF self.description.some
                         THEN serialize_field(EmptyObject, "description",
                                              self.description.value)
                         ELSE EmptyObject
        live    == serialize_field(description, "live", self.live)
        ts      == IF self.ts.some
                     THEN serialize_field(live, "org.matrix.msc3488.ts",
                                          self.ts.value)
                     ELSE live
        timeout == serialize_field(ts, "timeout", as_millis(self.timeout))
    IN  IF is_default(self.asset) THEN timeout
        ELSE serialize_field(timeout, "org.matrix.msc3488.asset",
                             AssetContent_serialize(self.asset))

\* derive(Serialize) of BeaconStateEventContent
BeaconStateEventContent_serialize(self) ==
    LET description == IF self.description.some
                         THEN serialize_field(EmptyObject, "description",
                                              self.description.value)
                         ELSE EmptyObject
        live    == serialize_field(description, "live", self.live)
        ts      == IF self.ts.some
                     THEN serialize_field(live, "org.matrix.msc3488.ts",
                                          self.ts.value)
                     ELSE live
        timeout == serialize_field(ts, "timeout", as_millis(self.timeout))
    IN  IF is_default(self.asset) THEN timeout
        ELSE serialize_field(timeout, "org.matrix.msc3488.asset",
                             AssetContent_serialize(self.asset))

NoCall == [called |-> FALSE, now |-> 0, outcome |-> "none"]
Call(now, outcome) == [called |-> TRUE, now |-> now, outcome |-> outcome]

NoWire == [some |-> FALSE, object |-> EmptyObject]
Wire(object) == [some |-> TRUE, object |-> object]

(***************************************************************************)
(* The end event of a stable beacon: compile_results.                      *)
(***************************************************************************)
\* The beacon of the end events: answers red and blue, neither with a plain
\* text, any max_selections.
EndAnswers ==
    BeaconAnswers_try_from(
        << BeaconAnswer("red", TextContentBlock_html_only("<b>red</b>")),
           BeaconAnswer("blue", TextContentBlock_html_only("<b>blue</b>")) >>).value

EndBeacons == { BeaconContentBlock(EndAnswers, m) : m \in 0..MaxSel }

\* The legacy beacon start events compile_results is called on.
UnstableEndAnswers ==
    UnstableBeaconAnswers_try_from(
        << BeaconAnswer("red", "red"), BeaconAnswer("blue", "blue") >>).value

UnstableEndBeacons ==
    { UnstableBeaconStartContentBlock(UnstableEndAnswers, m) : m \in 0..MaxSel }

\* The responses the iterator handed to compile_results yields.
EndRecords ==
    { BeaconResponseData("alice", 1, <<"red">>),
      BeaconResponseData("bob", 2, <<"blue", "red">>),
      BeaconResponseData("alice", 3, <<"blue">>),
      BeaconResponseData("bob", 1, <<"green">>),
      BeaconResponseData("alice", 2, <<"red", "red">>) }

\* What MilliSecondsSinceUnixEpoch::now() reads when compile_results is called.
EndClocks == {2, 3}

compile_results_cutoff_none(now) == NoTimestamp

\* The end_timestamp argument of the compile call:
\* Some(MilliSecondsSinceUnixEpoch::now())
compile_results_cutoff(now) == SomeTimestamp(now)

results_of_voted_flag(full_results) ==
    LET entries == BTreeMap_iter(full_results)
    IN  [i \in 1..Len(entries) |-> << entries[i][1], 1 >>]

\* full_results.into_iter().map(|(id, users)| (id, users.len())): the Tally
\* iterates in ascending order of its keys.
results_of(full_results) ==
    LET entries == BTreeMap_iter(full_results)
    IN  [i \in 1..Len(entries) |-> << entries[i][1], Cardinality(entries[i][2]) >>]

(***************************************************************************)
(* Beacon definitions: how a BeaconContentBlock (start.rs) or an           *)
(* UnstableBeaconStartContentBlock (unstable_start.rs) comes to exist.     *)
(* max_selections is a pub UInt field with a serde default; nothing checks *)
(* its value.                                                              *)
(***************************************************************************)
\* BeaconContentBlock::new(question, answers)
BeaconContentBlock_new(answers) ==
    BeaconContentBlock(answers, default_max_selections)

\* UnstableBeaconStartContentBlock::new(question, answers)
UnstableBeaconStartContentBlock_new(answers) ==
    UnstableBeaconStartContentBlock(answers, default_max_selections)

\* A definition in the state: the block and the Rust type it has.
Definition(rust_type, block) == [rust_type |-> rust_type, block |-> block]

\* The "max_selections" member of a wire payload: absent, or a UInt.
NoField      == [some |-> FALSE, value |-> 0]
SomeField(v) == [some |-> TRUE, value |-> v]
MaxSelectionsFields == {NoField} \cup { SomeField(m) : m \in 0..MaxSel }

\* A wire payload: the "answers" array and the "max_selections" member.
Payload(answers, max_selections) ==
    [received |-> TRUE, answers |-> answers, max_selections |-> max_selections]
NoPayload == [received |-> FALSE, answers |-> <<>>, max_selections |-> NoField]

\* The "answers" arrays payloads carry: none, one or two answers.
PayloadAnswers == { v \in SuppliedVecs : Len(v) <= 2 }

\* #[derive(Deserialize)] for BeaconContentBlock: answers through
\* BeaconAnswersDeHelper, max_selections through
\* #[serde(default = "BeaconContentBlock::default_max_selections")].
BeaconContentBlock_deserialize(p) ==
    LET answers == BeaconAnswers_try_from_helper(p.answers)
        max_selections == IF p.max_selections.some THEN p.max_selections.value
                          ELSE default_max_selections
    IN  IF answers.tag = "Err" THEN Err(answers.error)
        ELSE Ok(BeaconContentBlock(answers.value, max_selections))

\* #[derive(Deserialize)] for UnstableBeaconStartContentBlock
UnstableBeaconStartContentBlock_deserialize(p) ==
    LET answers == UnstableBeaconAnswers_try_from_helper(p.answers)
        max_selections == IF p.max_selections.some THEN p.max_selections.value
                          ELSE default_max_selections
    IN  IF answers.tag = "Err" THEN Err(answers.error)
        ELSE Ok(UnstableBeaconStartContentBlock(answers.value, max_selections))

(***************************************************************************)
(* BeaconKind (start.rs) and the serde helpers the legacy start block uses *)
(* for its kind field (unstable_start/unstable_poll_kind_serde.rs).        *)
(***************************************************************************)
\* enum BeaconKind { Undisclosed, Disclosed, _Custom(PrivOwnedStr) }
BeaconKind_Undisclosed == [variant |-> "Undisclosed", custom |-> ""]
BeaconKind_Disclosed   == [variant |-> "Disclosed", custom |-> ""]
BeaconKind_Custom(s)   == [variant |-> "_Custom", custom |-> s]

\* StringEnum's From<&str> for BeaconKind: the two renamed variants, and
\* _Custom for every other string.
BeaconKind_from(s) ==
    IF s = "m.undisclosed" THEN BeaconKind_Undisclosed
    ELSE IF s = "m.disclosed" THEN BeaconKind_Disclosed
    ELSE BeaconKind_Custom(s)

\* The strings kinds are made from and the strings that arrive on the wire.
KindStrings ==
    { "m.undisclosed", "m.disclosed",
      "org.matrix.msc3489.beacon.undisclosed",
      "org.matrix.msc3489.beacon.disclosed",
      "org.matrix.msc3381.poll.undisclosed",
      "org.example.ranked", "disclosed", "" }

unstable_beacon_kind_serde_serialize_stable_names(k) ==
    IF k.variant = "Undisclosed" THEN "m.undisclosed"
    ELSE IF k.variant = "Disclosed" THEN "m.disclosed"
    ELSE k.custom

\* unstable_beacon_kind_serde::serialize
unstable_beacon_kind_serde_serialize(k) ==
    IF k.variant = "Undisclosed" THEN "org.matrix.msc3489.beacon.undisclosed"
    ELSE IF k.variant = "Disclosed" THEN "org.matrix.msc3489.beacon.disclosed"
    ELSE k.custom

\* unstable_beacon_kind_serde::deserialize
unstable_beacon_kind_serde_deserialize(s) ==
    IF s = "org.matrix.msc3489.beacon.undisclosed" THEN BeaconKind_Undisclosed
    ELSE IF s = "org.matrix.msc3489.beacon.disclosed" THEN BeaconKind_Disclosed
    ELSE BeaconKind_Custom(s)

\* The kind string on the wire and where it came from.
NoKindWire == [some |-> FALSE, value |-> "", origin |-> "none"]
KindWire(s, origin) == [some |-> TRUE, value |-> s, origin |-> origin]

\* Option<BeaconKind>
NoKind      == [some |-> FALSE, kind |-> BeaconKind_Undisclosed]
SomeKind(k) == [some |-> TRUE, kind |-> k]

(***************************************************************************)
(* xtask: Package::can_enable_feature (src/xtask/src/cargo.rs).            *)
(***************************************************************************)
\* Most entries in the Vec of one feature of the models' packages.
MaxActivated == 1

\* str::starts_with
starts_with(s, prefix) ==
    Len(prefix) <= Len(s) /\ SubSeq(s, 1, Len(prefix)) = prefix

\* str::strip_prefix: Option<&str>, the rest when s starts with the prefix.
strip_prefix(s, prefix) ==
    IF starts_with(s, prefix)
    THEN SomeString(SubSeq(s, Len(prefix) + 1, Len(s)))
    ELSE NoString

\* str::trim_start_matches: the prefix is removed as often as it matches.
RECURSIVE trim_start_matches(_, _)
trim_start_matches(s, pattern) ==
    IF pattern # "" /\ starts_with(s, pattern)
    THEN trim_start_matches(SubSeq(s, Len(pattern) + 1, Len(s)), pattern)
    ELSE s

\* One iteration of the loop of can_enable_feature: TRUE when it reaches
\* return true, FALSE when it continues with the next entry.
activated_feature_enables(activated_feature, package_name, feature_name) ==
    LET without_dep == trim_start_matches(activated_feature, "dep:")
        after_name  == strip_prefix(without_dep, package_name)
    IN  IF ~after_name.some THEN FALSE
        ELSE IF after_name.value = "" THEN FALSE
        ELSE LET without_mark == trim_start_matches(after_name.value, "?")
                 after_slash  == strip_prefix(without_mark, "/")
             IN  IF ~after_slash.some THEN FALSE
                 ELSE after_slash.value = feature_name

\* Package { features: HashMap<String, Vec<String>> }; the other fields play
\* no part.
Package(features) == [features |-> features]

\* self.features.values().flatten(): every entry of every Vec.
activated_features(self) ==
    UNION { Range(self.features[f]) : f \in DOMAIN self.features }

\* Package::can_enable_feature(&self, package_name, feature_name)
can_enable_feature(self, package_name, feature_name) ==
    \E activated_feature \in activated_features(self) :
        activated_feature_enables(activated_feature, package_name, feature_name)

\* The entries the feature maps of the model are made of.
ActivatedPool ==
    { "rand", "ruma-common", "dep:ruma-common",
      "ruma-common/rand", "dep:ruma-common/rand",
      "ruma-common?/rand", "dep:ruma-common?/rand",
      "ruma-common/random", "ruma-common/js", "ruma-common-extra/rand",
      "dep:dep:ruma-common/rand", "ruma-common??/rand" }

FeatureNames == {"default", "full"}

Packages ==
    { Package(features) :
        features \in [FeatureNames -> SeqsUpTo(ActivatedPool, MaxActivated)] }

\* The arguments of the calls.
PackageNames  == {"ruma-common", "ruma"}
QueryFeatures == {"rand", "js"}

NoQuery == [asked |-> FALSE, package_name |-> "", feature_name |-> ""]
Query(package_name, feature_name) ==
    [asked |-> TRUE, package_name |-> package_name, feature_name |-> feature_name]

\* Option<bool>: what the call returned.
NoAnswer     == [some |-> FALSE, value |-> FALSE]
SomeAnswer(b) == [some |-> TRUE, value |-> b]

(***************************************************************************)
(* Initial states: each specification starts its own part and leaves the   *)
(* other parts idle.                                                       *)
(***************************************************************************)
AnswersIdle  == supplied = <<>> /\ op = "none" /\ result = NoResult
ValidateIdle ==
    /\ vBeacon = BeaconContentBlock(<<AnswerPool[1]>>, default_max_selections)
    /\ vRaw = <<>>
    /\ vSchema = "none"
    /\ vOut = None
CompileIdle  ==
    /\ beacon = BeaconContentBlock(<<AnswerPool[1]>>, default_max_selections)
    /\ cutoff = NoTimestamp
    /\ consumed = <<>>
    /\ current = [u \in Senders |-> NoEntry]
    /\ tally = NoTally
    /\ pc = "idle"
PresentIdle  ==
    /\ pSchema = "none"
    /\ pAnswers = <<>>
    /\ pResults = <<>>
    /\ beacon_results = NoBlock
    /\ leaderboard = NoLeaderboard
    /\ plain_text = NoString
InfoIdle     ==
    /\ content = BeaconInfoEventContent_new(NoString, Duration_from_secs(0))
    /\ live_call = NoCall
    /\ wire = NoWire
EndIdle      ==
    /\ pipeline = "none"
    /\ called_at = 0
DefinitionIdle ==
    /\ definition = NoResult
    /\ payload = NoPayload
    /\ built_by = "none"
KindIdle     ==
    /\ kind = BeaconKind_Undisclosed
    /\ kind_wire = NoKindWire
    /\ kind_back = NoKind
CargoIdle    ==
    /\ package = Package([f \in FeatureNames |-> <<>>])
    /\ query = NoQuery
    /\ can_enable = NoAnswer
OthersIdle   == EndIdle /\ DefinitionIdle /\ KindIdle /\ CargoIdle

(***************************************************************************)
(* SpecAnswers: every step is one construction attempt on a vector the     *)
(* caller (or the wire) supplies.                                          *)
(***************************************************************************)
StableTryFromVec ==
    /\ \E v \in SuppliedVecs :
        /\ supplied' = v
        /\ result' = BeaconAnswers_try_from(v)
    /\ op' = "stable.vec"
    /\ UNCHANGED <<validateVars, compileVars, presentVars, infoVars,
                   otherVars>>

StableTryFromSlice ==
    /\ \E v \in SuppliedVecs :
        /\ supplied' = v
        /\ result' = BeaconAnswers_try_from_slice(v)
    /\ op' = "stable.slice"
    /\ UNCHANGED <<validateVars, compileVars, presentVars, infoVars,
                   otherVars>>

StableDeserialize ==
    /\ \E v \in SuppliedVecs :
        /\ supplied' = v
        /\ result' = BeaconAnswers_try_from_helper(v)
    /\ op' = "stable.de"
    /\ UNCHANGED <<validateVars, compileVars, presentVars, infoVars,
                   otherVars>>

UnstableTryFromVec ==
    /\ \E v \in SuppliedVecs :
        /\ supplied' = v
        /\ result' = UnstableBeaconAnswers_try_from(v)
    /\ op' = "unstable.vec"
    /\ UNCHANGED <<validateVars, compileVars, presentVars, infoVars,
                   otherVars>>

UnstableTryFromSlice ==
    /\ \E v \in SuppliedVecs :
        /\ supplied' = v
        /\ result' = UnstableBeaconAnswers_try_from_slice(v)
    /\ op' = "unstable.slice"
    /\ UNCHANGED <<validateVars, compileVars, presentVars, infoVars,
                   otherVars>>

UnstableDeserialize ==
    /\ \E v \in SuppliedVecs :
        /\ supplied' = v
        /\ result' = UnstableBeaconAnswers_try_from_helper(v)
    /\ op' = "unstable.de"
    /\ UNCHANGED <<validateVars, compileVars, presentVars, infoVars,
                   otherVars>>

InitAnswers ==
    AnswersIdle /\ ValidateIdle /\ CompileIdle /\ PresentIdle /\ InfoIdle
    /\ OthersIdle

NextAnswers ==
    \/ StableTryFromVec
    \/ StableTryFromSlice
    \/ StableDeserialize
    \/ UnstableTryFromVec
    \/ UnstableTryFromSlice
    \/ UnstableDeserialize

SpecAnswers == InitAnswers /\ [][NextAnswers]_vars

(***************************************************************************)
(* SpecValidate: the inputs of validate are drawn initially; the steps     *)
(* apply the stable or the legacy validate to them.                        *)
(***************************************************************************)
InitValidate ==
    /\ AnswersIdle
    /\ OthersIdle
    /\ CompileIdle
    /\ PresentIdle
    /\ InfoIdle
    /\ vBeacon \in Beacons
    /\ vRaw \in RawLists
    /\ vSchema = "none"
    /\ vOut = None

ValidateStable ==
    /\ vSchema' = "stable"
    /\ vOut' = SelectionsContentBlock_validate(vRaw, vBeacon)
    /\ UNCHANGED <<vBeacon, vRaw, answerVars, compileVars, presentVars, infoVars,
                   otherVars>>

ValidateUnstable ==
    /\ vSchema' = "unstable"
    /\ vOut' = UnstableBeaconResponseContentBlock_validate(
                   UnstableBeaconResponseContentBlock_new(vRaw), vBeacon)
    /\ UNCHANGED <<vBeacon, vRaw, answerVars, compileVars, presentVars, infoVars,
                   otherVars>>

NextValidate == ValidateStable \/ ValidateUnstable

SpecValidate == InitValidate /\ [][NextValidate]_vars

(***************************************************************************)
(* Spec: one compile call.  The beacon and the cutoff are its arguments;   *)
(* each Consume step is one iteration of the loop over the responses the   *)
(* caller's iterator yields; Return builds the Tally once it is exhausted. *)
(***************************************************************************)
Init ==
    /\ AnswersIdle
    /\ OthersIdle
    /\ ValidateIdle
    /\ PresentIdle
    /\ InfoIdle
    /\ beacon \in CompiledBeacons
    /\ cutoff \in Cutoffs
    /\ consumed = <<>>
    /\ current = [u \in Senders |-> NoEntry]
    /\ tally = NoTally
    /\ pc = "fold"

Consume ==
    /\ pc = "fold"
    /\ Len(consumed) < MaxResponses
    /\ \E record \in ResponseRecords :
        /\ consumed' = Append(consumed, record)
        /\ current' = fold_response(current, record, beacon, cutoff)
    /\ UNCHANGED <<beacon, cutoff, tally, pc, answerVars, validateVars,
                   presentVars, infoVars,
                   otherVars>>

Return ==
    /\ pc = "fold"
    /\ tally' = Tally(build_tally(current))
    /\ pc' = "done"
    /\ UNCHANGED <<beacon, cutoff, consumed, current, answerVars, validateVars,
                   presentVars, infoVars,
                   otherVars>>

Next == Consume \/ Return

Spec == Init /\ [][Next]_vars

(***************************************************************************)
(* SpecPresent: the (id, count) pairs and the answers are drawn initially; *)
(* the steps build the results block from the pairs, sort the block and    *)
(* generate the fallback text of the stable or the legacy end event.       *)
(***************************************************************************)
InitPresent ==
    /\ AnswersIdle
    /\ OthersIdle
    /\ ValidateIdle
    /\ CompileIdle
    /\ InfoIdle
    /\ pSchema \in {"stable", "unstable"}
    /\ pAnswers = IF pSchema = "stable" THEN PresentAnswers
                  ELSE UnstablePresentAnswers
    /\ pResults \in ResultSeqs
    /\ beacon_results = NoBlock
    /\ leaderboard = NoLeaderboard
    /\ plain_text = NoString

FromIter ==
    /\ beacon_results' = SomeBlock(BeaconResultsContentBlock_from_iter(pResults))
    /\ UNCHANGED <<pSchema, pAnswers, pResults, leaderboard, plain_text,
                   answerVars, validateVars, compileVars, infoVars,
                   otherVars>>

Sorted ==
    /\ beacon_results.some
    /\ leaderboard' = Leaderboard(BeaconResultsContentBlock_sorted(beacon_results.map))
    /\ UNCHANGED <<pSchema, pAnswers, pResults, beacon_results, plain_text,
                   answerVars, validateVars, compileVars, infoVars,
                   otherVars>>

StableFallbackText ==
    /\ pSchema = "stable"
    /\ plain_text' = SomeString(generate_beacon_end_fallback_text(
                                    answer_labels(pAnswers), pResults))
    /\ UNCHANGED <<pSchema, pAnswers, pResults, beacon_results, leaderboard,
                   answerVars, validateVars, compileVars, infoVars,
                   otherVars>>

UnstableFallbackText ==
    /\ pSchema = "unstable"
    /\ plain_text' = SomeString(generate_beacon_end_fallback_text(
                                    unstable_answer_labels(pAnswers), pResults))
    /\ UNCHANGED <<pSchema, pAnswers, pResults, beacon_results, leaderboard,
                   answerVars, validateVars, compileVars, infoVars,
                   otherVars>>

NextPresent ==
    \/ FromIter
    \/ Sorted
    \/ StableFallbackText
    \/ UnstableFallbackText

SpecPresent == InitPresent /\ [][NextPresent]_vars

(***************************************************************************)
(* SpecEnd: one compile_results call on a stable or a legacy beacon start  *)
(* event.  The cutoff it hands to compile is the clock; after compile      *)
(* returned, the EndEvent step builds the results block and the fallback   *)
(* text of the end event (the legacy step builds the text only).  The      *)
(* caller may then sort the block.                                         *)
(***************************************************************************)
InitEnd ==
    /\ AnswersIdle
    /\ DefinitionIdle
    /\ KindIdle
    /\ CargoIdle
    /\ ValidateIdle
    /\ PresentIdle
    /\ InfoIdle
    /\ pipeline \in {"stable", "unstable"}
    /\ called_at \in EndClocks
    /\ beacon \in IF pipeline = "stable" THEN EndBeacons ELSE UnstableEndBeacons
    /\ cutoff = compile_results_cutoff(called_at)
    /\ consumed = <<>>
    /\ current = [u \in Senders |-> NoEntry]
    /\ tally = NoTally
    /\ pc = "fold"

ConsumeForEnd ==
    /\ pipeline = "stable"
    /\ pc = "fold"
    /\ Len(consumed) < MaxResponses
    /\ \E record \in EndRecords :
        /\ consumed' = Append(consumed, record)
        /\ current' = fold_response(current, record, beacon, cutoff)
    /\ UNCHANGED <<beacon, cutoff, tally, pc, answerVars, validateVars,
                   presentVars, infoVars,
                   otherVars>>

ConsumeForUnstableEnd ==
    /\ pipeline = "unstable"
    /\ pc = "fold"
    /\ Len(consumed) < MaxResponses
    /\ \E record \in EndRecords :
        /\ consumed' = Append(consumed, record)
        /\ current' = unstable_fold_response(current, record, beacon, cutoff)
    /\ UNCHANGED <<beacon, cutoff, tally, pc, answerVars, validateVars,
                   presentVars, infoVars,
                   otherVars>>

EndEvent ==
    /\ pipeline = "stable"
    /\ pc = "done"
    /\ LET results == results_of(tally.votes)
       IN  /\ pResults' = results
           /\ beacon_results' =
                 SomeBlock(BeaconResultsContentBlock_from_iter(results))
           /\ plain_text' =
                 SomeString(generate_beacon_end_fallback_text(
                                answer_labels(beacon.answers), results))
    /\ pSchema' = "stable"
    /\ pAnswers' = beacon.answers
    /\ pc' = "ended"
    /\ UNCHANGED <<beacon, cutoff, consumed, current, tally, leaderboard,
                   answerVars, validateVars, infoVars,
                   otherVars>>

\* The legacy end content carries the fallback text only.
UnstableEndEvent ==
    /\ pipeline = "unstable"
    /\ pc = "done"
    /\ LET results == results_of(tally.votes)
       IN  /\ pResults' = results
           /\ plain_text' =
                 SomeString(generate_beacon_end_fallback_text(
                                unstable_answer_labels(beacon.answers), results))
    /\ pSchema' = "unstable"
    /\ pAnswers' = beacon.answers
    /\ pc' = "ended"
    /\ UNCHANGED <<beacon, cutoff, consumed, current, tally, beacon_results,
                   leaderboard, answerVars, validateVars, infoVars,
                   otherVars>>

NextEnd ==
    \/ ConsumeForEnd
    \/ ConsumeForUnstableEnd
    \/ Return
    \/ EndEvent
    \/ UnstableEndEvent
    \/ Sorted

SpecEnd == InitEnd /\ [][NextEnd]_vars

(***************************************************************************)
(* SpecInfo: the life of one beacon info content.  It is built by new();   *)
(* start(), stop() and assignments to the public fields ts and asset       *)
(* change it; is_live() reads the clock; serializing it gives its JSON     *)
(* object.  A change of the value forgets the last call and the last wire. *)
(***************************************************************************)
InitInfo ==
    /\ AnswersIdle
    /\ OthersIdle
    /\ ValidateIdle
    /\ CompileIdle
    /\ PresentIdle
    /\ \E description \in Descriptions, timeout \in Timeouts :
          \/ content = BeaconInfoEventContent_new(description, timeout)
          \/ content = BeaconStateEventContent_new(description, timeout)
    /\ live_call = NoCall
    /\ wire = NoWire

Start ==
    /\ content' = IF content.rust_type = "BeaconInfoEventContent"
                    THEN BeaconInfoEventContent_start(content)
                    ELSE BeaconStateEventContent_start(content)
    /\ live_call' = NoCall
    /\ wire' = NoWire
    /\ UNCHANGED <<answerVars, validateVars, compileVars, presentVars,
                   otherVars>>

Stop ==
    /\ content' = IF content.rust_type = "BeaconInfoEventContent"
                    THEN BeaconInfoEventContent_stop(content)
                    ELSE BeaconStateEventContent_stop(content)
    /\ live_call' = NoCall
    /\ wire' = NoWire
    /\ UNCHANGED <<answerVars, validateVars, compileVars, presentVars,
                   otherVars>>

\* content.ts = Some(t)
AssignTs ==
    /\ \E t \in StartTimes : content' = [content EXCEPT !.ts = SomeTimestamp(t)]
    /\ live_call' = NoCall
    /\ wire' = NoWire
    /\ UNCHANGED <<answerVars, validateVars, compileVars, presentVars,
                   otherVars>>

\* content.asset = asset
AssignAsset ==
    /\ \E asset \in Assets : content' = [content EXCEPT !.asset = asset]
    /\ live_call' = NoCall
    /\ wire' = NoWire
    /\ UNCHANGED <<answerVars, validateVars, compileVars, presentVars,
                   otherVars>>

IsLive ==
    /\ \E now \in Clocks :
          live_call' =
              Call(now, IF content.rust_type = "BeaconInfoEventContent"
                          THEN BeaconInfoEventContent_is_live(content, now)
                          ELSE BeaconStateEventContent_is_live(content, now))
    /\ UNCHANGED <<content, wire, answerVars, validateVars, compileVars,
                   presentVars,
                   otherVars>>

Serialize ==
    /\ wire' = Wire(IF content.rust_type = "BeaconInfoEventContent"
                      THEN BeaconInfoEventContent_serialize(content)
                      ELSE BeaconStateEventContent_serialize(content))
    /\ UNCHANGED <<content, live_call, answerVars, validateVars, compileVars,
                   presentVars,
                   otherVars>>

NextInfo ==
    \/ Start
    \/ Stop
    \/ AssignTs
    \/ AssignAsset
    \/ IsLive
    \/ Serialize

SpecInfo == InitInfo /\ [][NextInfo]_vars

(***************************************************************************)
(* SpecDefinition: beacon definitions are built with new, have their pub   *)
(* max_selections field assigned, or are deserialized from a payload.      *)
(***************************************************************************)
InitDefinition ==
    /\ AnswersIdle
    /\ ValidateIdle
    /\ CompileIdle
    /\ PresentIdle
    /\ InfoIdle
    /\ EndIdle
    /\ KindIdle
    /\ CargoIdle
    /\ definition = NoResult
    /\ payload = NoPayload
    /\ built_by = "none"

NewBlock ==
    /\ \E answers \in BeaconAnswerLists :
          definition' = Ok(Definition("BeaconContentBlock",
                                      BeaconContentBlock_new(answers)))
    /\ payload' = NoPayload
    /\ built_by' = "new"
    /\ UNCHANGED <<answerVars, validateVars, compileVars, presentVars, infoVars,
                   endVars, kindVars, cargoVars>>

NewUnstableBlock ==
    /\ \E answers \in BeaconAnswerLists :
          definition' = Ok(Definition("UnstableBeaconStartContentBlock",
                                      UnstableBeaconStartContentBlock_new(answers)))
    /\ payload' = NoPayload
    /\ built_by' = "new"
    /\ UNCHANGED <<answerVars, validateVars, compileVars, presentVars, infoVars,
                   endVars, kindVars, cargoVars>>

\* block.max_selections = m
AssignMaxSelections ==
    /\ definition.tag = "Ok"
    /\ \E m \in 0..MaxSel :
          definition' = Ok(Definition(definition.value.rust_type,
                              [definition.value.block EXCEPT !.max_selections = m]))
    /\ built_by' = "assign"
    /\ UNCHANGED <<payload, answerVars, validateVars, compileVars, presentVars,
                   infoVars, endVars, kindVars, cargoVars>>

DeserializeBlock ==
    /\ \E answers \in PayloadAnswers, field \in MaxSelectionsFields :
          LET p == Payload(answers, field)
              block == BeaconContentBlock_deserialize(p)
          IN  /\ payload' = p
              /\ definition' = IF block.tag = "Err" THEN block
                               ELSE Ok(Definition("BeaconContentBlock", block.value))
    /\ built_by' = "deserialize"
    /\ UNCHANGED <<answerVars, validateVars, compileVars, presentVars, infoVars,
                   endVars, kindVars, cargoVars>>

DeserializeUnstableBlock ==
    /\ \E answers \in PayloadAnswers, field \in MaxSelectionsFields :
          LET p == Payload(answers, field)
              block == UnstableBeaconStartContentBlock_deserialize(p)
          IN  /\ payload' = p
              /\ definition' = IF block.tag = "Err" THEN block
                               ELSE Ok(Definition("UnstableBeaconStartContentBlock",
                                                  block.value))
    /\ built_by' = "deserialize"
    /\ UNCHANGED <<answerVars, validateVars, compileVars, presentVars, infoVars,
                   endVars, kindVars, cargoVars>>

NextDefinition ==
    \/ NewBlock
    \/ NewUnstableBlock
    \/ AssignMaxSelections
    \/ DeserializeBlock
    \/ DeserializeUnstableBlock

SpecDefinition == InitDefinition /\ [][NextDefinition]_vars

(***************************************************************************)
(* SpecKind: the kind of a legacy start block is assigned, serialized, and *)
(* kind strings, serialized here or received, are deserialized.            *)
(***************************************************************************)
InitKind ==
    /\ AnswersIdle
    /\ ValidateIdle
    /\ CompileIdle
    /\ PresentIdle
    /\ InfoIdle
    /\ EndIdle
    /\ DefinitionIdle
    /\ CargoIdle
    /\ kind = BeaconKind_Undisclosed
    /\ kind_wire = NoKindWire
    /\ kind_back = NoKind

\* block.kind = BeaconKind::from(s); UnstableBeaconStartContentBlock::new
\* starts with Default::default(), which is Undisclosed.
AssignKind ==
    /\ \E s \in KindStrings : kind' = BeaconKind_from(s)
    /\ kind_wire' = NoKindWire
    /\ kind_back' = NoKind
    /\ UNCHANGED <<answerVars, validateVars, compileVars, presentVars, infoVars,
                   endVars, definitionVars, cargoVars>>

SerializeKind ==
    /\ kind_wire' = KindWire(unstable_beacon_kind_serde_serialize(kind), "serialize")
    /\ kind_back' = NoKind
    /\ UNCHANGED <<kind, answerVars, validateVars, compileVars, presentVars,
                   infoVars, endVars, definitionVars, cargoVars>>

ReceiveKind ==
    /\ \E s \in KindStrings : kind_wire' = KindWire(s, "received")
    /\ kind_back' = NoKind
    /\ UNCHANGED <<kind, answerVars, validateVars, compileVars, presentVars,
                   infoVars, endVars, definitionVars, cargoVars>>

DeserializeKind ==
    /\ kind_wire.some
    /\ kind_back' = SomeKind(unstable_beacon_kind_serde_deserialize(kind_wire.value))
    /\ UNCHANGED <<kind, kind_wire, answerVars, validateVars, compileVars,
                   presentVars, infoVars, endVars, definitionVars, cargoVars>>

NextKind ==
    \/ AssignKind
    \/ SerializeKind
    \/ ReceiveKind
    \/ DeserializeKind

SpecKind == InitKind /\ [][NextKind]_vars

(***************************************************************************)
(* SpecCargo: can_enable_feature is called on a package read from the      *)
(* cargo metadata.                                                         *)
(***************************************************************************)
InitCargo ==
    /\ AnswersIdle
    /\ ValidateIdle
    /\ CompileIdle
    /\ PresentIdle
    /\ InfoIdle
    /\ EndIdle
    /\ DefinitionIdle
    /\ KindIdle
    /\ package \in Packages
    /\ query = NoQuery
    /\ can_enable = NoAnswer

CanEnableFeature ==
    /\ \E package_name \in PackageNames, feature_name \in QueryFeatures :
          /\ query' = Query(package_name, feature_name)
          /\ can_enable' =
                SomeAnswer(can_enable_feature(package, package_name, feature_name))
    /\ UNCHANGED <<package, answerVars, validateVars, compileVars, presentVars,
                   infoVars, endVars, definitionVars, kindVars>>

NextCargo == CanEnableFeature

SpecCargo == InitCargo /\ [][NextCargo]_vars

(***************************************************************************)
(* Properties of the answer-list constructors (SpecAnswers).               *)
(***************************************************************************)
TryFromVecOps == {"stable.vec", "unstable.vec"}
DeserializeOps == {"stable.de", "unstable.de"}

\* C1: TryFrom<Vec> (stable and legacy) fails with "not enough values" on an
\* empty vector and with "too many values" on more than 20 answers; on 1 to
\* 20 answers it succeeds and holds the supplied answers in supplied order.
C1_TryFromChecksBothBounds ==
    op \in TryFromVecOps =>
        /\ Len(supplied) = 0 => result = Err("NotEnoughValues")
        /\ Len(supplied) > 20 => result = Err("TooManyValues")
        /\ Len(supplied) \in 1..20 => result = Ok(supplied)

C1_Witness ==
    /\ op = "stable.vec"
    /\ Len(supplied) = 20
    /\ supplied[1] # supplied[2]
    /\ result.tag = "Ok"
    /\ result.value = supplied

\* C2: deserializing a payload of more than 20 answers (stable and legacy)
\* succeeds with exactly the first 20 supplied answers, in their order.
C2_DeserializeKeepsFirstTwenty ==
    (op \in DeserializeOps /\ Len(supplied) > 20) =>
        /\ result.tag = "Ok"
        /\ Len(result.value) = 20
        /\ \A i \in 1..20 : result.value[i] = supplied[i]

C2_Witness ==
    /\ op = "unstable.de"
    /\ Len(supplied) = 22
    /\ supplied[20] # supplied[21]
    /\ result.tag = "Ok"
    /\ Len(result.value) = 20

\* C3: every answer list that exists, whichever constructor produced it, has
\* between 1 and 20 answers; deserializing an empty payload fails instead of
\* producing an empty list.
C3_AnswersLengthInRange ==
    /\ result.tag = "Ok" => (Len(result.value) >= 1 /\ Len(result.value) <= 20)
    /\ (op \in DeserializeOps /\ supplied = <<>>) => result.tag = "Err"

C3_Witness ==
    /\ op = "unstable.de"
    /\ supplied = <<>>
    /\ result = Err("NotEnoughValues")

(***************************************************************************)
(* Properties of validate (SpecValidate).                                  *)
(***************************************************************************)
AnswerIdsOf(b) == { b.answers[i].id : i \in 1..Len(b.answers) }

\* The raw list without the IDs that are no answer, order and repeats kept.
RECURSIVE KeepAnswers(_, _)
KeepAnswers(raw, ids) ==
    IF raw = <<>> THEN <<>>
    ELSE IF Head(raw) \in ids THEN <<Head(raw)>> \o KeepAnswers(Tail(raw), ids)
    ELSE KeepAnswers(Tail(raw), ids)

FirstN(q, n) == [i \in 1..(IF Len(q) < n THEN Len(q) ELSE n) |-> q[i]]

\* C4: when validate returns Some(sequence), every ID of the sequence is the
\* id of an answer of the beacon and the sequence is no longer than the
\* beacon's max_selections.
C4_ValidOnlyAnswersWithinMax ==
    (vSchema # "none" /\ vOut.some) =>
        /\ \A i \in 1..Len(vOut.value) :
              \E j \in 1..Len(vBeacon.answers) :
                  vBeacon.answers[j].id = vOut.value[i]
        /\ Len(vOut.value) <= vBeacon.max_selections

C4_Witness ==
    /\ vSchema = "stable"
    /\ vOut.some
    /\ "green" \in Range(vRaw)
    /\ Len(vOut.value) = vBeacon.max_selections
    /\ Len(vRaw) > Len(vOut.value) + 1

\* C5: the sequence validate keeps is the first max_selections elements of
\* the raw list without the IDs that are no answer of the beacon: submitted
\* order kept, a valid ID submitted twice kept twice, a longer list cut to
\* its earliest selections (None standing for the empty kept sequence).
C5_KeepsEarliestValidInOrder ==
    vSchema # "none" =>
        LET expected == FirstN(KeepAnswers(vRaw, AnswerIdsOf(vBeacon)),
                               vBeacon.max_selections)
        IN  /\ vOut.some => vOut.value = expected
            /\ ~vOut.some => expected = <<>>

C5_Witness ==
    /\ vSchema = "stable"
    /\ vBeacon.max_selections = 2
    /\ vRaw = <<"red", "green", "red", "blue">>
    /\ vOut = Some(<<"red", "red">>)

\* C6: validate returns None if and only if the raw list is empty or holds
\* no ID of the beacon's answers; a raw list mixing unknown IDs with a valid
\* one yields Some.
C6_NoneIffNoAnswerId ==
    vSchema # "none" =>
        (~vOut.some <=> Range(vRaw) \cap AnswerIdsOf(vBeacon) = {})

(***************************************************************************)
(* Properties of the result compiler (Spec).  They are stated over the     *)
(* responses the call consumed, not over the compiler's own bookkeeping.   *)
(***************************************************************************)
\* The response was submitted strictly after the cutoff of the call.
Late(i) == cutoff.some /\ consumed[i].submitted_at > cutoff.value

ValidOf(i) == SelectionsContentBlock_validate(consumed[i].selections, beacon)

ResponsesOf(u) == { i \in 1..Len(consumed) : consumed[i].sender = u }

\* The responses of u that pass the cutoff and have a valid selection.
EligibleOf(u) == { i \in ResponsesOf(u) : ~Late(i) /\ ValidOf(i).some }

LastIn(S) == CHOOSE i \in S : \A j \in S : j <= i

\* The answers whose vote-set holds u.
VotesOf(u) == { id \in DOMAIN tally.votes : u \in tally.votes[id] }

\* C7: of two or more responses of one sender that each have a valid
\* selection and pass the cutoff, only the one processed last is counted,
\* whatever their submission timestamps.
C7_LastProcessedWins ==
    pc = "done" =>
        \A u \in Senders :
            Cardinality(EligibleOf(u)) >= 2 =>
                VotesOf(u) = Range(ValidOf(LastIn(EligibleOf(u))).value)

C7_Witness ==
    /\ pc = "done"
    /\ \E u \in Senders : \E i, j \in EligibleOf(u) :
        /\ i < j
        /\ j = LastIn(EligibleOf(u))
        /\ consumed[i].submitted_at > consumed[j].submitted_at
        /\ Range(ValidOf(i).value) # Range(ValidOf(j).value)
        /\ VotesOf(u) = Range(ValidOf(j).value)

\* C8: with a cutoff, a response submitted strictly after it contributes no
\* vote, one submitted at or before it is processed normally; without a
\* cutoff no response is excluded because of its timestamp.
C8_CutoffExcludesOnlyLater ==
    pc = "done" =>
        /\ tally.votes =
              compile_beacon_results(
                  beacon,
                  SelectSeq(consumed,
                            LAMBDA r : ~(cutoff.some
                                         /\ r.submitted_at > cutoff.value)),
                  NoTimestamp)
        /\ \A u \in Senders :
              (\A i \in ResponsesOf(u) : Late(i)) => VotesOf(u) = {}
        /\ \A u \in Senders :
              (\E i \in ResponsesOf(u) :
                    /\ ValidOf(i).some
                    /\ (~cutoff.some \/ consumed[i].submitted_at <= cutoff.value))
                => VotesOf(u) # {}

C8_Witness ==
    /\ pc = "done"
    /\ cutoff = SomeTimestamp(1)
    /\ \E i, j \in 1..Len(consumed) :
        /\ consumed[i].sender = "alice" /\ consumed[i].submitted_at = 2
        /\ ValidOf(i).some
        /\ consumed[j].sender = "bob" /\ consumed[j].submitted_at = 1
        /\ ValidOf(j).some
    /\ ResponsesOf("alice") # {}
    /\ \A i \in ResponsesOf("alice") : Late(i)
    /\ VotesOf("alice") = {}
    /\ VotesOf("bob") # {}

\* C9: a response compile skips (after the cutoff, or without a valid
\* selection) leaves the sender's entry as it was: an earlier valid response
\* of the sender is still the one held, and the one counted in the Tally.
C9_SkippedLeavesEntry ==
    \A u \in Senders :
        (EligibleOf(u) # {} /\ LastIn(ResponsesOf(u)) \notin EligibleOf(u)) =>
            LET k == LastIn(EligibleOf(u))
            IN  /\ current[u] = Entry(ValidOf(k).value, consumed[k].submitted_at)
                /\ pc = "done" => VotesOf(u) = Range(ValidOf(k).value)

C9_Witness ==
    /\ pc = "done"
    /\ Len(consumed) = 3
    /\ \E u \in Senders :
        /\ ResponsesOf(u) = {1, 2, 3}
        /\ EligibleOf(u) = {1}
        /\ ~Late(2) /\ ~ValidOf(2).some
        /\ Late(3) /\ ValidOf(3).some
        /\ Range(ValidOf(3).value) # Range(ValidOf(1).value)
        /\ VotesOf(u) = Range(ValidOf(1).value)

\* C10: a participant whose retained response validly selects several
\* distinct answers is in the vote-set of each of them and of no other
\* answer.
C10_MultiSelectCountsEach ==
    pc = "done" =>
        \A u \in Senders :
            current[u].some =>
                \A id \in SelectionIds :
                    (id \in DOMAIN tally.votes /\ u \in tally.votes[id])
                        <=> (\E k \in 1..Len(current[u].selections) :
                                current[u].selections[k] = id)

C10_Witness ==
    /\ pc = "done"
    /\ \E u \in Senders :
        /\ current[u].some
        /\ current[u].selections = <<"blue", "red">>
        /\ VotesOf(u) = {"blue", "red"}
        /\ \E w \in Senders : w # u /\ VotesOf(w) = {"red"}

\* The consumed response does not count: none of its selections is valid.
Spoilt(i) == ~ValidOf(i).some

\* C11: every key of the Tally compile returns is the id of an answer of the
\* beacon, and every key present has a non-empty set of participants: an
\* answer with zero votes is absent, not present with an empty set.
C11_KeysAreVotedAnswers ==
    pc = "done" =>
        \A id \in DOMAIN tally.votes :
            /\ \E j \in 1..Len(beacon.answers) : beacon.answers[j].id = id
            /\ tally.votes[id] # {}

C11_Witness ==
    /\ pc = "done"
    /\ \E i \in 1..Len(consumed) : ~Late(i) /\ "green" \in Range(consumed[i].selections)
    /\ DOMAIN tally.votes = {"red"}
    /\ tally.votes["red"] = Senders
    /\ "blue" \in AnswerIdsOf(beacon)

\* C12: a response with no valid selection does not stop compile and does not
\* change anybody's votes: the Tally of the consumed responses equals the
\* Tally compiled from the same responses with the invalid ones removed.
C12_InvalidResponsesAreInert ==
    pc = "done" =>
        /\ tally.some
        /\ tally.votes =
              compile_beacon_results(
                  beacon,
                  SelectSeq(consumed,
                            LAMBDA r : SelectionsContentBlock_validate(
                                           r.selections, beacon).some),
                  cutoff)

C12_Witness ==
    /\ pc = "done"
    /\ Len(consumed) = 3
    /\ consumed[1].sender = "alice" /\ ~Late(1) /\ ~Spoilt(1)
    /\ consumed[2].sender = "bob" /\ ~Late(2) /\ ~Spoilt(2)
    /\ consumed[3].sender = "alice" /\ ~Late(3) /\ Spoilt(3)
    /\ VotesOf("alice") = Range(ValidOf(1).value)
    /\ VotesOf("bob") = Range(ValidOf(2).value)

\* The legacy beacon with the answer IDs of b in the same order and the
\* max_selections of b; the texts of a legacy beacon are plain strings.
LegacyTwin(b) ==
    UnstableBeaconStartContentBlock(
        UnstableBeaconAnswers_try_from(
            [i \in 1..Len(b.answers) |->
                BeaconAnswer(b.answers[i].id, "legacy text")]).value,
        b.max_selections)

\* C18: a stable beacon and the legacy beacon with the same answer IDs in
\* the same order and the same max_selections aggregate alike: every raw
\* selection list validates to the same result in both, and the response
\* records of a call compile, with its cutoff, to the same Tally in both.
C18_StableAndLegacyAgree ==
    /\ consumed = <<>> =>
          \A raw \in RawLists :
              SelectionsContentBlock_validate(raw, beacon)
                = UnstableBeaconResponseContentBlock_validate(
                      UnstableBeaconResponseContentBlock_new(raw),
                      LegacyTwin(beacon))
    /\ pc = "done" =>
          tally.votes
            = compile_unstable_beacon_results(LegacyTwin(beacon), consumed, cutoff)

C18_Witness ==
    /\ pc = "done"
    /\ beacon.max_selections = 1
    /\ Len(consumed) = 3
    /\ consumed[1].selections = <<"blue", "red">> /\ ~Late(1)
    /\ consumed[2].selections = <<"green">> /\ ~Late(2)
    /\ consumed[3].selections = <<"red">> /\ Late(3)
    /\ consumed[1].sender = consumed[3].sender
    /\ DOMAIN tally.votes = {"blue"}
    /\ tally.votes
         = compile_unstable_beacon_results(LegacyTwin(beacon), consumed, cutoff)

(***************************************************************************)
(* Properties of the presenters (SpecPresent).                             *)
(***************************************************************************)
\* C15: sorted returns the entries of the results block by descending vote
\* count, entries of equal count in ascending lexicographic order of their
\* answer ID, each entry of the block exactly once; calling it again on the
\* same block returns the same sequence.
C15_SortedDescendingTiesAscending ==
    /\ [](leaderboard.some =>
            LET out == leaderboard.entries
                map == beacon_results.map
            IN  /\ Len(out) = Cardinality(DOMAIN map)
                /\ \A i \in 1..Len(out) :
                      out[i][1] \in DOMAIN map /\ out[i][2] = map[out[i][1]]
                /\ \A i, j \in 1..Len(out) :
                      i < j =>
                        \/ out[i][2] > out[j][2]
                        \/ out[i][2] = out[j][2] /\ str_lt(out[i][1], out[j][1]))
    /\ [][leaderboard.some => leaderboard' = leaderboard]_vars

C15_Witness ==
    /\ leaderboard.some
    /\ leaderboard.entries = << <<"blue", 2>>, <<"red", 2>>, <<"re", 1>> >>
    /\ pResults[1][1] = "red"

\* The text cut at every line separator; the empty text has no line.
RECURSIVE SplitLines(_)
SplitLines(s) ==
    LET breaks == { k \in 1..Len(s) : SubSeq(s, k, k) = "\n" }
    IN  IF breaks = {} THEN <<s>>
        ELSE LET k == CHOOSE b \in breaks : \A o \in breaks : b <= o
             IN  <<SubSeq(s, 1, k - 1)>> \o SplitLines(SubSeq(s, k + 1, Len(s)))

LinesOf(s) == IF s = "" THEN <<>> ELSE SplitLines(s)

\* The label each answer of the presented beacons is shown with.
ShownLabel(schema, id) ==
    IF schema = "stable"
      THEN (IF id = "red" THEN "Red" ELSE IF id = "re" THEN "Re" ELSE "blue")
      ELSE (IF id = "red" THEN "Rouge" ELSE IF id = "re" THEN "Re" ELSE "Bleu")

\* C16: the fallback text has exactly one line per entry of the results
\* sequence it is given, in the order of that sequence, each of the form
\* "<label>: <count> vote(s)"; no entry is moved or dropped, an entry with a
\* count of zero is listed as well.
C16_FallbackTextOneLinePerEntry ==
    plain_text.some =>
        LET lines == LinesOf(plain_text.value)
        IN  /\ Len(lines) = Len(pResults)
            /\ \A i \in 1..Len(pResults) :
                  lines[i] = ShownLabel(pSchema, pResults[i][1]) \o ": "
                               \o ToString(pResults[i][2]) \o " vote(s)"

C16_Witness ==
    /\ pSchema = "stable"
    /\ pResults = << <<"red", 1>>, <<"blue", 0>>, <<"red", 2>> >>
    /\ plain_text = SomeString("Red: 1 vote(s)\nblue: 0 vote(s)\nRed: 2 vote(s)")

\* The first answer of the presented beacon that has the id.
AnswerOf(id) ==
    pAnswers[CHOOSE k \in 1..Len(pAnswers) :
                 /\ pAnswers[k].id = id
                 /\ \A j \in 1..(k - 1) : pAnswers[j].id # id]

\* The text/plain bodies of a stable answer's text, in their order.
PlainBodies(answer) ==
    LET plain == { k \in 1..Len(answer.text) :
                     answer.text[k].mimetype = "text/plain" }
    IN  { answer.text[k].body : k \in { m \in plain : \A o \in plain : m <= o } }

\* C21: in the fallback text of a stable beacon the label of an answer is
\* the plain-text representation of its text, and the answer's ID when the
\* text has no plain-text representation; in the fallback text of a legacy
\* beacon the label is the answer's text string.
C21_LabelIsPlainTextOrId ==
    plain_text.some =>
        LET lines == LinesOf(plain_text.value)
            rest(i) == ": " \o ToString(pResults[i][2]) \o " vote(s)"
        IN  /\ Len(lines) = Len(pResults)
            /\ \A i \in 1..Len(pResults) :
                  LET answer == AnswerOf(pResults[i][1])
                  IN  IF pSchema = "unstable"
                        THEN lines[i] = answer.text \o rest(i)
                      ELSE IF PlainBodies(answer) = {}
                        THEN lines[i] = answer.id \o rest(i)
                      ELSE \E body \in PlainBodies(answer) :
                               lines[i] = body \o rest(i)

C21_Witness ==
    /\ pSchema = "stable"
    /\ pResults = << <<"blue", 1>>, <<"re", 2>> >>
    /\ plain_text = SomeString("blue: 1 vote(s)\nRe: 2 vote(s)")

(***************************************************************************)
(* Properties of the end event (SpecEnd).                                  *)
(***************************************************************************)
\* No consumed response counts: each is after the cutoff, or names no answer
\* of the beacon, or the beacon allows no selection at all.
NothingCounts ==
    \A i \in 1..Len(consumed) :
        \/ Late(i)
        \/ beacon.max_selections = 0
        \/ Range(consumed[i].selections) \cap AnswerIdsOf(beacon) = {}

\* C13: compiling an empty response collection, or one in which no response
\* has a valid selection within the cutoff, returns an empty Tally as a
\* normal result, and the leaderboard sorted from it has no entry.
C13_NothingCountedGivesEmpty ==
    NothingCounts =>
        /\ pc \in {"done", "ended"} => (tally.some /\ DOMAIN tally.votes = {})
        /\ (pc = "ended" /\ leaderboard.some) => leaderboard.entries = <<>>

C13_Witness ==
    /\ pc = "ended"
    /\ leaderboard.some
    /\ Len(consumed) = 2
    /\ Late(1) /\ ValidOf(1).some
    /\ ~Late(2) /\ ~ValidOf(2).some
    /\ beacon.max_selections = 1
    /\ leaderboard.entries = <<>>

\* The responses of the example, in the order they are compiled.
ExampleResponses ==
    << BeaconResponseData("alice", 1, <<"red">>),
       BeaconResponseData("bob", 2, <<"blue", "red">>),
       BeaconResponseData("alice", 3, <<"blue">>) >>

\* C17: for the beacon with answers red and blue and max_selections = 1,
\* compiling Alice [red] at 1, Bob [blue, red] at 2, Alice [blue] at 3 in
\* that order gives a Tally whose only key is blue, with vote-set
\* {Alice, Bob}; red is absent; the fallback text is "blue: 2 vote(s)".
C17_ExampleScenario ==
    (/\ consumed = ExampleResponses
     /\ AnswerIdsOf(beacon) = {"red", "blue"}
     /\ beacon.max_selections = 1
     /\ \A i \in 1..Len(consumed) : ~Late(i)) =>
        /\ pc \in {"done", "ended"} =>
              /\ DOMAIN tally.votes = {"blue"}
              /\ tally.votes["blue"] = {"alice", "bob"}
        /\ pc = "ended" => plain_text = SomeString("blue: 2 vote(s)")

C17_Witness ==
    /\ pc = "ended"
    /\ consumed = ExampleResponses
    /\ beacon.max_selections = 1
    /\ cutoff = SomeTimestamp(3)
    /\ plain_text.some

\* The senders that are in some vote-set of the Tally.
Voters == UNION { tally.votes[id] : id \in DOMAIN tally.votes }

RECURSIVE SumOfCounts(_)
SumOfCounts(map) ==
    IF DOMAIN map = {} THEN 0
    ELSE LET k == CHOOSE id \in DOMAIN map : TRUE
         IN  map[k] + SumOfCounts([id \in DOMAIN map \ {k} |-> map[id]])

\* C23: the results block of a stable end content has exactly the Tally's
\* answer IDs as keys, and each count is the number of distinct participants
\* of that answer's vote-set; the counts add up to more than the number of
\* participants only when a participant is in several vote-sets.
C23_ResultsBlockCountsVoteSets ==
    (pipeline = "stable" /\ pc = "ended") =>
        /\ beacon_results.some
        /\ DOMAIN beacon_results.map = DOMAIN tally.votes
        /\ \A id \in DOMAIN tally.votes :
               beacon_results.map[id] = Cardinality(tally.votes[id])
        /\ SumOfCounts(beacon_results.map) >= Cardinality(Voters)
        /\ SumOfCounts(beacon_results.map) > Cardinality(Voters) =>
               \E u \in Voters : Cardinality(VotesOf(u)) > 1

C23_Witness ==
    /\ pipeline = "stable"
    /\ pc = "ended"
    /\ beacon_results.some
    /\ DOMAIN beacon_results.map = {"red", "blue"}
    /\ beacon_results.map["blue"] = 2
    /\ beacon_results.map["red"] = 1
    /\ tally.votes["blue"] = {"alice", "bob"}

\* The responses of u that were submitted at or before the time of the call
\* and have a valid selection.
OnTimeOf(u) ==
    { i \in ResponsesOf(u) :
        consumed[i].submitted_at <= called_at /\ ValidOf(i).some }

\* The answers u votes for when only the responses submitted at or before the
\* time of the call are looked at.
OnTimeVotesOf(u) ==
    IF OnTimeOf(u) = {} THEN {}
    ELSE Range(ValidOf(LastIn(OnTimeOf(u))).value)

\* C24: compile_results (stable and legacy) compiles with a cutoff equal to
\* the time at which it is called: a response submitted later than the call
\* contributes no vote to the end content, and a response submitted at or
\* before that time is eligible.
C24_CutoffIsTimeOfCall ==
    pc \in {"done", "ended"} =>
        /\ \A u \in Senders : VotesOf(u) = OnTimeVotesOf(u)
        /\ pc = "ended" =>
              \A k \in 1..Len(pResults) :
                  pResults[k][2] =
                      Cardinality({ u \in Senders : pResults[k][1] \in OnTimeVotesOf(u) })

C24_Witness ==
    /\ pipeline = "unstable"
    /\ pc = "ended"
    /\ called_at = 2
    /\ beacon.max_selections = 1
    /\ consumed = << BeaconResponseData("alice", 1, <<"red">>),
                     BeaconResponseData("bob", 2, <<"blue", "red">>),
                     BeaconResponseData("alice", 3, <<"blue">>) >>
    /\ pResults = << <<"blue", 1>>, <<"red", 1>> >>
    /\ plain_text = SomeString("blue: 1 vote(s)\nred: 1 vote(s)")

\* No sender has two responses in the collection.
EverySenderOnce == \A u \in Senders : Cardinality(ResponsesOf(u)) <= 1

\* The orders the consumed responses can be supplied in.
OrdersOf(n) ==
    { p \in [1..n -> 1..n] : \A i, j \in 1..n : p[i] = p[j] => i = j }
Permuted(p) == [i \in 1..Len(consumed) |-> consumed[p[i]]]

\* What the compile of the pipeline returns for the responses in this order.
CompileOf(responses) ==
    IF pipeline = "stable"
    THEN compile_beacon_results(beacon, responses, cutoff)
    ELSE compile_unstable_beacon_results(beacon, responses, cutoff)

\* C28: in a response collection where every sender appears at most once,
\* the Tally compile returns does not depend on the order of the responses:
\* every permutation of the collection compiles to the same Tally.
C28_OrderIndependentForDistinctSenders ==
    (pc \in {"done", "ended"} /\ EverySenderOnce) =>
        \A p \in OrdersOf(Len(consumed)) : CompileOf(Permuted(p)) = tally.votes

C28_Witness ==
    /\ pc = "done"
    /\ beacon.max_selections = 2
    /\ consumed = << BeaconResponseData("bob", 2, <<"blue", "red">>),
                     BeaconResponseData("alice", 1, <<"red">>) >>
    /\ tally.votes = [id \in {"red", "blue"} |->
                         IF id = "red" THEN {"alice", "bob"} ELSE {"bob"}]

\* The senders of the responses the call consumed.
SendersOf == { consumed[i].sender : i \in 1..Len(consumed) }

\* C29: a participant is counted at most once per answer, also when the
\* validated selection names the answer twice or the participant sent
\* several responses: the count of every answer is at most the number of
\* distinct senders, and each sender is in at most max_selections vote-sets.
C29_CountedOncePerAnswer ==
    pc \in {"done", "ended"} =>
        /\ \A id \in DOMAIN tally.votes :
               /\ tally.votes[id] \subseteq SendersOf
               /\ Cardinality(tally.votes[id]) <= Cardinality(SendersOf)
        /\ \A u \in Senders : Cardinality(VotesOf(u)) <= beacon.max_selections
        /\ pc = "ended" =>
              \A k \in 1..Len(pResults) :
                  /\ pResults[k][2] <= Cardinality(SendersOf)
                  /\ pResults[k][2] = Cardinality(tally.votes[pResults[k][1]])

C29_Witness ==
    /\ pipeline = "stable"
    /\ pc = "ended"
    /\ beacon.max_selections = 2
    /\ consumed = << BeaconResponseData("alice", 1, <<"red">>),
                     BeaconResponseData("alice", 2, <<"red", "red">>) >>
    /\ ValidOf(2) = Some(<<"red", "red">>)
    /\ pResults = << <<"red", 1>> >>

(***************************************************************************)
(* Properties of the beacon info contents (SpecInfo).                      *)
(***************************************************************************)
\* C19: is_live returns false if the live flag is false or the clock is past
\* ts + timeout; when the flag is true and the clock is not past
\* ts + timeout it returns true.
C19_IsLiveUntilExpiry ==
    (live_call.called /\ (content.ts.some \/ ~content.live)) =>
        LET expired == content.ts.some
                       /\ live_call.now > content.ts.value + as_millis(content.timeout)
        IN  /\ (~content.live \/ expired) => live_call.outcome = "false"
            /\ (content.live /\ ~expired) => live_call.outcome = "true"

\* The content has a description and a ts besides the fields it always has.
EveryFieldSet(c) == c.description.some /\ c.ts.some

\* C20: serializing a beacon info content with every field set gives a JSON
\* object with exactly the keys "description", "live",
\* "org.matrix.msc3488.ts", "org.matrix.msc3488.asset" and
\* "org.matrix.msc3488.timeout"; the timeout is the duration in whole
\* milliseconds (60 seconds gives 60000) and the asset is an object with its
\* type.
C20_SerializedKeys ==
    (wire.some /\ EveryFieldSet(content)) =>
        /\ DOMAIN wire.object =
              { "description", "live", "org.matrix.msc3488.ts",
                "org.matrix.msc3488.asset", "org.matrix.msc3488.timeout" }
        /\ content.timeout = Duration_from_secs(60) =>
              wire.object["org.matrix.msc3488.timeout"] = 60000
        /\ DOMAIN wire.object["org.matrix.msc3488.asset"] = {"type"}
        /\ wire.object["org.matrix.msc3488.asset"]["type"] = content.asset.type_

\* Every field but the live flag is what it was before the step.
OnlyLiveMayChange ==
    /\ content'.rust_type = content.rust_type
    /\ content'.description = content.description
    /\ content'.ts = content.ts
    /\ content'.timeout = content.timeout
    /\ content'.asset = content.asset

\* C25: a content created with new has live = false and ts = None; a start
\* call leaves it live and a stop call leaves it not live, whatever it was
\* before (so live is true exactly when the last of them was start, and a
\* repeated call changes nothing), and neither changes description, ts,
\* timeout or asset.
C25_StartStopOnlyFlipLive ==
    /\ (~content.live /\ content.ts = NoTimestamp)
    /\ [][/\ Start => (content'.live /\ OnlyLiveMayChange)
          /\ Stop => (~content'.live /\ OnlyLiveMayChange)
          /\ (Start /\ content.live) => content' = content
          /\ (Stop /\ ~content.live) => content' = content]_vars

C25_Witness ==
    /\ content.live
    /\ content.ts = NoTimestamp
    /\ content.description.some
    /\ content.asset = AssetContent_default
    /\ live_call = NoCall

\* C26: is_live returns false without failing whenever the live flag is
\* false, even if ts is None; on a content whose live flag is true and whose
\* ts is None it returns no boolean: it fails on the missing timestamp.
C26_IsLiveFailsWithoutTs ==
    live_call.called =>
        /\ ~content.live => live_call.outcome = "false"
        /\ (content.live /\ ~content.ts.some) => live_call.outcome = "panic"

C26_Witness ==
    /\ live_call.called
    /\ content.live
    /\ ~content.ts.some
    /\ live_call.outcome = "panic"

(***************************************************************************)
(* Properties of the beacon definitions (SpecDefinition).                  *)
(***************************************************************************)
\* C22: every beacon definition, stable or legacy, has max_selections >= 1,
\* whether it was built with new (which sets 1), had the field assigned, or
\* was deserialized; a payload without the field gets 1.
C22_MaxSelectionsAtLeastOne ==
    definition.tag = "Ok" =>
        /\ definition.value.block.max_selections >= 1
        /\ built_by = "new" => definition.value.block.max_selections = 1
        /\ (built_by = "deserialize" /\ ~payload.max_selections.some) =>
               definition.value.block.max_selections = 1

(***************************************************************************)
(* Properties of the legacy kind serde (SpecKind).                         *)
(***************************************************************************)
UnstableKindNames ==
    { "org.matrix.msc3489.beacon.undisclosed",
      "org.matrix.msc3489.beacon.disclosed" }

\* Undisclosed and Disclosed serialize to the two unstable names, and every
\* string but those two deserializes to a custom kind carrying it.
KindNamesMapped ==
    /\ (kind_wire.origin = "serialize" /\ kind = BeaconKind_Undisclosed) =>
           kind_wire.value = "org.matrix.msc3489.beacon.undisclosed"
    /\ (kind_wire.origin = "serialize" /\ kind = BeaconKind_Disclosed) =>
           kind_wire.value = "org.matrix.msc3489.beacon.disclosed"
    /\ (kind_back.some /\ kind_wire.value \notin UnstableKindNames) =>
           kind_back.kind = BeaconKind_Custom(kind_wire.value)

\* C27: for every BeaconKind value (Undisclosed, Disclosed or a custom
\* string), deserializing the string serialize produced gives back the same
\* kind; Undisclosed and Disclosed map to the two unstable names and every
\* other string deserializes to a custom kind carrying that string.
C27_KindRoundTrip ==
    /\ (kind_wire.origin = "serialize" /\ kind_back.some) => kind_back.kind = kind
    /\ KindNamesMapped

\* C27 as the code has it: the kind comes back the same unless it is a custom
\* kind carrying one of the two unstable names, which comes back as
\* Undisclosed or Disclosed; the string on the wire is the same either way.
C27_KindRoundTripButUnstableNames ==
    /\ (kind_wire.origin = "serialize" /\ kind_back.some) =>
           /\ kind \notin { BeaconKind_Custom(n) : n \in UnstableKindNames } =>
                  kind_back.kind = kind
           /\ kind = BeaconKind_Custom("org.matrix.msc3489.beacon.undisclosed") =>
                  kind_back.kind = BeaconKind_Undisclosed
           /\ kind = BeaconKind_Custom("org.matrix.msc3489.beacon.disclosed") =>
                  kind_back.kind = BeaconKind_Disclosed
           /\ unstable_beacon_kind_serde_serialize(kind_back.kind) = kind_wire.value
    /\ KindNamesMapped

C27_Witness ==
    /\ kind = BeaconKind_Custom("org.matrix.msc3489.beacon.undisclosed")
    /\ kind_wire = KindWire("org.matrix.msc3489.beacon.undisclosed", "serialize")
    /\ kind_back = SomeKind(BeaconKind_Undisclosed)

(***************************************************************************)
(* Properties of can_enable_feature (SpecCargo).                           *)
(***************************************************************************)
\* The entries that are an optional "dep:", the package name, an optional
\* "?", "/" and the feature name.
EnablingEntries(package_name, feature_name) ==
    { dep \o package_name \o mark \o "/" \o feature_name :
        dep \in {"", "dep:"}, mark \in {"", "?"} }

\* C30: can_enable_feature(package_name, feature_name) returns true if and
\* only if some entry in the values of the feature map is an optional "dep:",
\* then exactly package_name, then an optional "?", then "/", then exactly
\* feature_name; an entry that only names the dependency, an entry of another
\* package whose name starts with package_name and an entry naming a
\* different feature do not count.
C30_CanEnableIffEntryOfTheForm ==
    can_enable.some =>
        (can_enable.value <=>
            activated_features(package)
                \cap EnablingEntries(query.package_name, query.feature_name) # {})

====
